---- MODULE Spec2Model ----
(***************************************************************************)
(* A model of sqlmodelservice.Service: the generic CRUD facade bound to    *)
(* one table model and one session.  The session and the database behind   *)
(* it are the collaborators the service calls; they are modelled by what   *)
(* the service's calls make them do (stage, flush, commit, roll back,      *)
(* point lookup, select).  A second, read-only session plays the part of   *)
(* the tests' query_session.                                               *)
(***************************************************************************)
EXTENDS Integers, Sequences, FiniteSets, TLC

(* ----------------------------- bounds ---------------------------------- *)

\* How many identities the table's sequence hands out in a run.
MaxId == 2
\* The longest item list handed to add_to_session.
MaxItems == 2

(* --------------------------- the table model --------------------------- *)

\* Python's None.
NoneV == "None"

\* DbPlayer-like table: `name` is NOT NULL, `team` is nullable, `id` is the
\* server-assigned primary key (it is the key of the functions below).
Names == {"First", "Second"}
Teams == {"Red"}
ModelFields == {"name", "team"}

\* A field of the update input that the table model does not have.
ExtraField == "extra"

\* Field definition order of the update input: model_dump keeps it.
UpdateFieldOrder == <<"name", "team", "extra">>

Ids == 1..MaxId

\* The rows an instance of the table model can hold in memory.
Rows == [name : Names \cup {NoneV}, team : Teams \cup {NoneV}]

\* The marker of an instance passed to session.delete.
Deleted == [name |-> "deleted", team |-> "deleted"]

\* The function with the empty domain (an empty table, an empty overlay).
Empty == [i \in {} |-> NoneV]

\* f with x mapped to v, x added to the domain when it is new.
Put(f, x, v) == [y \in DOMAIN f \cup {x} |-> IF y = x THEN v ELSE f[y]]

\* The creation inputs: PlayerCreate carries the name only.
CreateInputs == [name : Names]

\* The update inputs: per field the value held and whether it was explicitly
\* set (pydantic's model_fields_set); an unset field holds its default, None.
\* Updates rename to "Second" or to None, and set the team or clear it.
UpdateInputs ==
    {u \in [name : {"Second", NoneV}, team : Teams \cup {NoneV},
            extra : {NoneV, "x"}, fields_set : SUBSET {"name", "team", "extra"}] :
        /\ "name" \notin u.fields_set => u.name = NoneV
        /\ "team" \notin u.fields_set => u.team = NoneV
        /\ ("extra" \in u.fields_set) <=> (u.extra = "x")
        /\ "extra" \in u.fields_set => u.team = NoneV /\ "team" \notin u.fields_set
                                        /\ ("name" \in u.fields_set => u.name = "Second")}

(* ----------------------------- exceptions ------------------------------ *)

NoExc == [kind |-> "none", msg |-> <<>>, cause |-> "none"]

Raised(kind, msg, cause) == [kind |-> kind, msg |-> msg, cause |-> cause]

(* ------------------------ primary-key formatting ----------------------- *)

Digit == <<"0", "1", "2", "3", "4", "5", "6", "7", "8", "9">>

RECURSIVE NatStr(_)
\* str() of a natural number: its decimal digits.
NatStr(n) == IF n < 10 THEN <<Digit[n + 1]>> ELSE NatStr(n \div 10) \o <<Digit[(n % 10) + 1]>>

\* str() of an int.
IntStr(n) == IF n < 0 THEN <<"-">> \o NatStr(0 - n) ELSE NatStr(n)

\* A Python value: its class and its content.  The content of a str is its
\* characters, of a tuple or list its elements, of a dict or any other
\* Mapping its items in iteration order.
PyVal(cls, val) == [cls |-> cls, val |-> val]

\* str(x) for the atomic values the keys are made of.
PyStr(x) ==
    CASE x.cls = "int" -> IntStr(x.val)
      [] x.cls = "str" -> x.val
      [] x.cls = "bool" -> <<x.val>>
      [] OTHER -> <<"<", x.cls, ">">>

RECURSIVE Join(_, _)
\* sep.join(parts)
Join(sep, parts) ==
    IF parts = <<>> THEN <<>>
    ELSE IF Len(parts) = 1 THEN parts[1]
    ELSE parts[1] \o sep \o Join(sep, Tail(parts))

\* The built-in classes with a base among the classes the helper tests.
BaseClass == [bool |-> "int", OrderedDict |-> "dict"]

\* isinstance(pk, classes) for the classes the helper tests: a str or an int,
\* a tuple or a list, a dict.  A Mapping that is no dict (a
\* types.MappingProxyType) is none of them.
IsInstance(x, classes) ==
    \/ x.cls \in classes
    \/ x.cls \in DOMAIN BaseClass /\ BaseClass[x.cls] \in classes

\* What the helper does: the string it returns, or the error it raises.
Formatted(str) == [error |-> "none", str |-> str]
ValueError == [error |-> "ValueError", str |-> <<"Unrecognized primary key type.">>]

\* Service._format_primary_key
format_primary_key(pk) ==
    IF IsInstance(pk, {"str", "int"}) THEN Formatted(PyStr(pk))
    ELSE IF IsInstance(pk, {"tuple", "list"})
        THEN Formatted(Join(<<"|">>, [i \in 1..Len(pk.val) |-> PyStr(pk.val[i])]))
    ELSE IF IsInstance(pk, {"dict"})
        THEN Formatted(Join(<<"|">>, [i \in 1..Len(pk.val) |->
                 PyStr(pk.val[i][1]) \o <<":">> \o PyStr(pk.val[i][2])]))
    ELSE ValueError

\* The key of the modelled table as the Python value the callers pass.
IntKey(pk) == PyVal("int", pk)

(* ------------------- the session and the database ---------------------- *)
(* A world is the database and the service's session as one record:        *)
(*   store   the committed rows, by id (what any other session can read);  *)
(*   new     the instances added to the session and not yet flushed, in    *)
(*           the order they were added (session.new);                      *)
(*   txn     the session's open transaction: the rows it has inserted or   *)
(*           changed (or marked Deleted) and not committed, by id;         *)
(*   nextId  the next value of the table's id sequence;                    *)
(*   log     the session calls made by the operation in progress, in       *)
(*           order; "raise" follows a call that raised.                    *)

World(st, nw, tx, nid) == [store |-> st, new |-> nw, txn |-> tx, nextId |-> nid, log |-> <<>>]

Logged(w, call) == [w EXCEPT !.log = Append(@, call)]

\* The rows the session's own queries read: the committed rows under the
\* open transaction's inserts, changes and deletions.
View(w) ==
    [id \in {i \in DOMAIN w.store \cup DOMAIN w.txn :
                 ~(i \in DOMAIN w.txn /\ w.txn[i] = Deleted)} |->
        IF id \in DOMAIN w.txn THEN w.txn[id] ELSE w.store[id]]

\* An instance as the service returns it: the row with its identity.
Item(id, row) == [id |-> id, name |-> row.name, team |-> row.team]

\* Python's None where an instance is expected.
NoItem == [id |-> 0, name |-> NoneV, team |-> NoneV]

\* Session.flush: the pending instances are inserted in the order they were
\* added, each taking the next value of the id sequence.
session_flush(w) ==
    [w EXCEPT
        !.txn = [id \in DOMAIN w.txn \cup (w.nextId..(w.nextId + Len(w.new) - 1)) |->
                    IF id \in DOMAIN w.txn THEN w.txn[id] ELSE w.new[id - w.nextId + 1]],
        !.new = <<>>,
        !.nextId = w.nextId + Len(w.new)]

\* The table's NOT NULL constraint on `name` (player.py: `name: str`).
ViolatesNotNull(w) ==
    \E id \in DOMAIN w.txn : w.txn[id] # Deleted /\ w.txn[id].name = NoneV

\* How a commit can end, as far as the environment decides it: it succeeds,
\* or the database's COMMIT fails.
CommitOutcomes == {"ok", "commit"}

\* Session.rollback as it would be if it undid nothing.
session_rollback_noop(w) == Logged(w, "rollback")

\* Session.rollback: pending instances are expunged, changed ones expired.
session_rollback(w) ==
    [Logged(w, "rollback") EXCEPT !.new = <<>>, !.txn = Empty]

\* Session.commit under the outcome the environment picks.  A failing flush
\* (an UPDATE that sets `name` to NULL: updates are emitted before inserts)
\* has the session undo its own transaction before it raises; a failing
\* COMMIT leaves the flushed transaction as it is.
session_commit(w, outcome) ==
    LET w1 == Logged(w, "commit")
        f == session_flush(w1)
    IN  IF ViolatesNotNull(w1)
            THEN [w |-> [Logged(w1, "raise") EXCEPT !.new = <<>>, !.txn = Empty],
                  error |-> "IntegrityError"]
        ELSE IF outcome = "commit"
            THEN [w |-> Logged(f, "raise"), error |-> "OperationalError"]
        ELSE [w |-> [f EXCEPT !.store = View(f), !.txn = Empty], error |-> "none"]

\* Session.add of a new instance.
session_add(w, row) == [Logged(w, "add") EXCEPT !.new = Append(@, row)]

\* Session.add of an instance the session already holds: nothing to stage,
\* its changes are already part of the transaction.
session_add_persistent(w) == Logged(w, "add")

\* Session.add_all of new instances.
session_add_all(w, rows) == [Logged(w, "add_all") EXCEPT !.new = @ \o rows]

\* Session.delete.
session_delete(w, pk) == [Logged(w, "delete") EXCEPT !.txn = Put(@, pk, Deleted)]

\* Session.get: the instance from the identity map when the session holds it
\* (loaded), else a SELECT, before which the session autoflushes.
session_get(w, pk, loaded) ==
    LET w1 == IF loaded THEN Logged(w, "get") ELSE session_flush(Logged(w, "get"))
    IN  [w |-> w1, item |-> IF pk \in DOMAIN View(w1) THEN Item(pk, View(w1)[pk]) ELSE NoItem]

\* Session.refresh: the instance's fields as the database holds them.
session_refresh(w, id) ==
    [w |-> Logged(w, "refresh"), item |-> Item(id, View(w)[id])]

(* ------------------------------ the service ---------------------------- *)
(* Each operation is an operator from the world and the call's arguments   *)
(* to its outcome: the world it leaves, the exception it raises (NoExc     *)
(* when it returns) and the value it returns.                              *)

Outcome(w, exc, ret) == [w |-> w, exc |-> exc, ret |-> ret]

\* _safe_commit as it would be with a second attempt after the rollback.
safe_commit_retry(w, outcome, error_msg) ==
    LET c == session_commit(w, outcome)
    IN  IF c.error = "none" THEN Outcome(c.w, NoExc, NoItem)
        ELSE LET r == session_commit(session_rollback(c.w), outcome)
             IN  IF r.error = "none" THEN Outcome(r.w, NoExc, NoItem)
                 ELSE Outcome(session_rollback(r.w), Raised("CommitFailed", error_msg, r.error), NoItem)

\* _safe_commit as it would be without the rollback.
safe_commit_no_rollback(w, outcome, error_msg) ==
    LET c == session_commit(w, outcome)
    IN  IF c.error = "none" THEN Outcome(c.w, NoExc, NoItem)
        ELSE Outcome(c.w, Raised("CommitFailed", error_msg, c.error), NoItem)

\* Service._safe_commit (utils.safe_commit is the same code)
safe_commit(w, outcome, error_msg) ==
    LET c == session_commit(w, outcome)
    IN  IF c.error = "none" THEN Outcome(c.w, NoExc, NoItem)
        ELSE Outcome(session_rollback(c.w), Raised("CommitFailed", error_msg, c.error), NoItem)

\* Service._prepare_for_create: model_validate copies the input's fields and
\* fills the table model's other fields with their defaults.
prepare_for_create(data) == [name |-> data.name, team |-> NoneV]

\* _prepare_for_update as it would be with model_dump(exclude_none=True):
\* the fields that hold a value, whether set or not.
prepare_for_update_exclude_none(data) ==
    LET set == SelectSeq(UpdateFieldOrder, LAMBDA k : data[k] # NoneV)
    IN  [i \in 1..Len(set) |-> <<set[i], data[set[i]]>>]

\* Service._prepare_for_update: model_dump(exclude_unset=True), the
\* explicitly set fields as (key, value) pairs in field order.
prepare_for_update(data) ==
    LET set == SelectSeq(UpdateFieldOrder, LAMBDA k : k \in data.fields_set)
    IN  [i \in 1..Len(set) |-> <<set[i], data[set[i]]>>]

RECURSIVE SetAttrs(_, _)
\* The setattr loop of _apply_changes_to_item: each assignment takes effect
\* as it is made; assigning a field the table model does not have raises
\* and ends the loop.
SetAttrs(row, changes) ==
    IF changes = <<>> THEN [row |-> row, exc |-> NoExc]
    ELSE IF changes[1][1] \notin ModelFields
        THEN [row |-> row,
              exc |-> Raised("ValueError", <<"object has no field ", changes[1][1]>>, "none")]
    ELSE SetAttrs([row EXCEPT ![changes[1][1]] = changes[1][2]], Tail(changes))

\* Service._apply_changes_to_item on the instance of row pk, which the
\* session holds: what is assigned is part of the session's transaction at
\* once.
apply_changes_to_item(w, pk, data) ==
    LET old == View(w)[pk]
        r == SetAttrs(old, prepare_for_update(data))
    IN  Outcome(IF r.row = old THEN w ELSE [w EXCEPT !.txn = Put(@, pk, r.row)], r.exc, NoItem)

\* Service.get_by_pk
get_by_pk(w, pk, loaded) ==
    LET g == session_get(w, pk, loaded)
    IN  Outcome(g.w, NoExc, g.item)

\* create as it would be if it returned the instance it built, without the
\* refresh that loads the committed row and its identity.
create_no_refresh(w, data, outcome) ==
    LET w1 == session_add(w, prepare_for_create(data))
        c == safe_commit(w1, outcome, <<"Commit failed.">>)
    IN  IF c.exc # NoExc THEN c
        ELSE Outcome(c.w, NoExc, Item(0, prepare_for_create(data)))

\* Service.create
create(w, data, outcome) ==
    LET w1 == session_add(w, prepare_for_create(data))
        c == safe_commit(w1, outcome, <<"Commit failed.">>)
    IN  IF c.exc # NoExc THEN c
        ELSE LET r == session_refresh(c.w, c.w.nextId - 1)
             IN  Outcome(r.w, NoExc, r.item)

\* Service.update
update(w, pk, data, outcome, loaded) ==
    LET g == get_by_pk(w, pk, loaded)
    IN  IF g.ret = NoItem
            THEN Outcome(g.w, Raised("NotFound", format_primary_key(IntKey(pk)).str, "none"), NoItem)
        ELSE
        LET a == apply_changes_to_item(g.w, pk, data)
        IN  IF a.exc # NoExc THEN a
            ELSE
            LET c == safe_commit(session_add_persistent(a.w), outcome,
                         <<"Failed to update ">> \o format_primary_key(IntKey(pk)).str \o <<".">>)
            IN  IF c.exc # NoExc THEN c
                ELSE LET r == session_refresh(c.w, pk)
                     IN  Outcome(r.w, NoExc, r.item)

\* delete_by_pk as it would be if it left the commit to a later call.
delete_by_pk_no_commit(w, pk, outcome, loaded) ==
    LET g == get_by_pk(w, pk, loaded)
    IN  IF g.ret = NoItem
            THEN Outcome(g.w, Raised("NotFound", format_primary_key(IntKey(pk)).str, "none"), NoItem)
        ELSE Outcome(session_delete(g.w, pk), NoExc, NoItem)

\* delete_by_pk as it would be if a missing row were nothing to delete.
delete_by_pk_silent(w, pk, outcome, loaded) ==
    LET g == get_by_pk(w, pk, loaded)
    IN  IF g.ret = NoItem THEN Outcome(g.w, NoExc, NoItem)
        ELSE safe_commit(session_delete(g.w, pk), outcome, <<"Failed to delete item.">>)

\* Service.delete_by_pk
delete_by_pk(w, pk, outcome, loaded) ==
    LET g == get_by_pk(w, pk, loaded)
    IN  IF g.ret = NoItem
            THEN Outcome(g.w, Raised("NotFound", format_primary_key(IntKey(pk)).str, "none"), NoItem)
        ELSE safe_commit(session_delete(g.w, pk), outcome, <<"Failed to delete item.">>)

RECURSIVE ApplyAll(_, _)
\* The list comprehension of add_to_session's update branch: the items are
\* changed one after the other, and an item that raises ends it.
ApplyAll(w, items) ==
    IF items = <<>> THEN Outcome(w, NoExc, NoItem)
    ELSE LET a == apply_changes_to_item(w, items[1].pk, items[1].data)
         IN  IF a.exc # NoExc THEN a ELSE ApplyAll(a.w, Tail(items))

\* add_to_session as it would be if it committed only when it was given
\* items.
add_to_session_skip_empty(w, items, operation, commit, outcome) ==
    LET prepared ==
            IF operation = "create"
                THEN Outcome(session_add_all(w, [i \in 1..Len(items) |-> prepare_for_create(items[i])]),
                             NoExc, NoItem)
            ELSE IF operation = "update"
                THEN LET a == ApplyAll(w, items)
                     IN  IF a.exc # NoExc THEN a ELSE Outcome(Logged(a.w, "add_all"), NoExc, NoItem)
            ELSE Outcome(w, Raised("ServiceException", <<"Unsupported operation: ", operation>>, "none"),
                         NoItem)
    IN  IF prepared.exc # NoExc THEN prepared
        ELSE IF commit /\ items # <<>>
            THEN LET c == safe_commit(prepared.w, outcome, <<"Commit failed.">>)
                 IN  Outcome(c.w, c.exc, NoItem)
        ELSE Outcome(prepared.w, NoExc, NoItem)

\* add_to_session as it would be if every selector other than "update"
\* meant "create".
add_to_session_default_create(w, items, operation, commit, outcome) ==
    LET prepared ==
            IF operation = "update"
                THEN LET a == ApplyAll(w, items)
                     IN  IF a.exc # NoExc THEN a ELSE Outcome(Logged(a.w, "add_all"), NoExc, NoItem)
            ELSE Outcome(session_add_all(w, [i \in 1..Len(items) |-> prepare_for_create(items[i])]),
                         NoExc, NoItem)
    IN  IF prepared.exc # NoExc THEN prepared
        ELSE IF commit
            THEN LET c == safe_commit(prepared.w, outcome, <<"Commit failed.">>)
                 IN  Outcome(c.w, c.exc, NoItem)
        ELSE Outcome(prepared.w, NoExc, NoItem)

\* Service.add_to_session
add_to_session(w, items, operation, commit, outcome) ==
    LET prepared ==
            IF operation = "create"
                THEN Outcome(session_add_all(w, [i \in 1..Len(items) |-> prepare_for_create(items[i])]),
                             NoExc, NoItem)
            ELSE IF operation = "update"
                THEN LET a == ApplyAll(w, items)
                     IN  IF a.exc # NoExc THEN a ELSE Outcome(Logged(a.w, "add_all"), NoExc, NoItem)
            ELSE Outcome(w, Raised("ServiceException", <<"Unsupported operation: ", operation>>, "none"),
                         NoItem)
    IN  IF prepared.exc # NoExc THEN prepared
        ELSE IF commit
            THEN LET c == safe_commit(prepared.w, outcome, <<"Commit failed.">>)
                 IN  Outcome(c.w, c.exc, NoItem)
        ELSE Outcome(prepared.w, NoExc, NoItem)

\* A where clause: a column compared with a value, or the literal True.
Where(field, value) == [field |-> field, value |-> value]
WhereTrue == Where("*", "*")

Matches(where, row) == where = WhereTrue \/ row[where.field] = where.value

\* Service.exec of Service.select() with a where clause: the session
\* autoflushes, then the matching rows of the table are the result.
exec_select_where(w, where) ==
    LET w1 == session_flush(Logged(w, "exec"))
    IN  [w |-> w1,
         rows |-> {Item(id, View(w1)[id]) : id \in {i \in DOMAIN View(w1) : Matches(where, View(w1)[i])}}]

\* ScalarResult.one
result_one(rows) ==
    IF rows = {} THEN [error |-> "NoResultFound", item |-> NoItem]
    ELSE IF Cardinality(rows) > 1 THEN [error |-> "MultipleResultsFound", item |-> NoItem]
    ELSE [error |-> "none", item |-> CHOOSE r \in rows : TRUE]

\* ScalarResult.first in the place of one_or_none: any of the rows.
result_first(rows) ==
    IF rows = {} THEN [error |-> "none", item |-> NoItem]
    ELSE [error |-> "none", item |-> CHOOSE r \in rows : TRUE]

\* ScalarResult.one_or_none
result_one_or_none(rows) ==
    IF Cardinality(rows) > 1 THEN [error |-> "MultipleResultsFound", item |-> NoItem]
    ELSE IF rows = {} THEN [error |-> "none", item |-> NoItem]
    ELSE [error |-> "none", item |-> CHOOSE r \in rows : TRUE]

\* Service.one
one(w, where) ==
    LET e == exec_select_where(w, where)
        r == result_one(e.rows)
    IN  IF r.error = "MultipleResultsFound"
            THEN Outcome(e.w, Raised("MultipleResultsFound",
                                     <<"Multiple items matched the where clause.">>, r.error), NoItem)
        ELSE IF r.error = "NoResultFound"
            THEN Outcome(e.w, Raised("NotFound", <<"No items matched the where clause">>, r.error), NoItem)
        ELSE Outcome(e.w, NoExc, r.item)

\* Service.one_or_none
one_or_none(w, where) ==
    LET e == exec_select_where(w, where)
        r == result_one_or_none(e.rows)
    IN  IF r.error = "MultipleResultsFound"
            THEN Outcome(e.w, Raised("MultipleResultsFound",
                                     <<"Multiple items matched the where clause.">>, r.error), NoItem)
        ELSE Outcome(e.w, NoExc, r.item)

\* The where argument of all() when it is omitted (None), and the literal
\* False.
NoWhere == Where("none", "none")
WhereFalse == Where("false", "false")

\* An order-by clause: a column, ascending or descending.
OrderBy(field, desc) == [field |-> field, desc |-> desc]

\* The database's ordering of the values of a column: strings by collation,
\* NULL above every string (PostgreSQL's default: last ascending, first
\* descending).
ColumnOrder == <<"First", "Red", "Second", NoneV>>

Rank(v) == CHOOSE i \in 1..Len(ColumnOrder) : ColumnOrder[i] = v

RECURSIVE SortsBefore(_, _, _)
\* ORDER BY's comparison: row a sorts strictly before row b under the
\* clauses, the first clause that tells them apart deciding.
SortsBefore(a, b, order_by) ==
    IF order_by = <<>> THEN FALSE
    ELSE LET c == order_by[1]
         IN  IF Rank(a[c.field]) = Rank(b[c.field]) THEN SortsBefore(a, b, Tail(order_by))
             ELSE IF c.desc THEN Rank(b[c.field]) < Rank(a[c.field])
             ELSE Rank(a[c.field]) < Rank(b[c.field])

RECURSIVE SortRows(_, _)
\* ORDER BY: the rows sorted under the clauses; rows the clauses do not tell
\* apart stay in the order the scan produced them.
SortRows(rows, order_by) ==
    IF rows = <<>> THEN <<>>
    ELSE LET sorted == SortRows(SubSeq(rows, 1, Len(rows) - 1), order_by)
             r == rows[Len(rows)]
             k == Cardinality({i \in 1..Len(sorted) : ~SortsBefore(r, sorted[i], order_by)})
         IN  SubSeq(sorted, 1, k) \o <<r>> \o SubSeq(sorted, k + 1, Len(sorted))

\* The rows of the table in the order the database scans them (scan: the
\* ids in that order, which the database picks).
ScanRows(w, scan) == [i \in 1..Len(scan) |-> Item(scan[i], View(w)[scan[i]])]

\* all as it would be if it tested the where clause for truth (`if where:`):
\* the literal False would filter nothing.
all_if_where(w, where, order_by, scan) ==
    LET w1 == session_flush(Logged(w, "exec"))
        rows == ScanRows(w1, scan)
        filtered == IF where \notin {NoWhere, WhereFalse}
                        THEN SelectSeq(rows, LAMBDA r : Matches(where, r))
                    ELSE rows
    IN  [w |-> w1, rows |-> IF order_by # <<>> THEN SortRows(filtered, order_by) ELSE filtered]

\* Service.all: the select of the table, filtered when a where clause is
\* given (the literal False selects nothing), ordered when order_by holds a
\* clause; the session autoflushes before the select.
all(w, where, order_by, scan) ==
    LET w1 == session_flush(Logged(w, "exec"))
        rows == ScanRows(w1, scan)
        filtered == IF where # NoWhere
                        THEN SelectSeq(rows, LAMBDA r : where # WhereFalse /\ Matches(where, r))
                    ELSE rows
    IN  [w |-> w1, rows |-> IF order_by # <<>> THEN SortRows(filtered, order_by) ELSE filtered]

\* Service.get_all: the select of the table, unfiltered and unordered.
get_all(w, scan) ==
    LET w1 == session_flush(Logged(w, "exec"))
    IN  [w |-> w1, rows |-> ScanRows(w1, scan)]

(* ------------------------------- the state ----------------------------- *)

VARIABLES
    store,   \* the committed rows of the table, by id
    new,     \* the service's session: instances added and not yet flushed
    txn,     \* the service's session: its uncommitted inserts and changes
    nextId,  \* the next value of the table's id sequence
    qcache,  \* the read-only session's identity map: the rows it holds, as loaded
    last,    \* the service call made last: its arguments, outcome and the world before it
    fmt,     \* the last use of the primary-key formatting helper on its own
    listing  \* the last call of all or get_all: its order_by and the rows returned

vars == <<store, new, txn, nextId, qcache, last, fmt, listing>>

\* The world now.
Now == World(store, new, txn, nextId)

NoData == [name |-> NoneV, team |-> NoneV, extra |-> NoneV, fields_set |-> {}]

NoCreate == [name |-> NoneV]

Args(pk, cdata, data, where, operation, commit, nitems) ==
    [pk |-> pk, cdata |-> cdata, data |-> data, where |-> where, operation |-> operation,
     commit |-> commit, nitems |-> nitems]

NoCall ==
    [op |-> "none", args |-> Args(0, NoCreate, NoData, WhereTrue, "none", FALSE, 0),
     exc |-> NoExc, ret |-> NoItem, log |-> <<>>, pre |-> World(Empty, <<>>, Empty, 1)]

NoListing == [order_by |-> <<>>, rows |-> <<>>]

NoFmt == [pk |-> PyVal("NoneType", <<>>), out |-> [error |-> "none", str |-> <<>>], done |-> FALSE]

Init ==
    /\ store = Empty
    /\ new = <<>>
    /\ txn = Empty
    /\ nextId = 1
    /\ qcache = Empty
    /\ last = NoCall
    /\ fmt = NoFmt
    /\ listing = NoListing

\* A service call with outcome o takes effect.
Returns(op, args, o) ==
    /\ store' = o.w.store
    /\ new' = o.w.new
    /\ txn' = o.w.txn
    /\ nextId' = o.w.nextId
    /\ last' = [op |-> op, args |-> args, exc |-> o.exc, ret |-> o.ret, log |-> o.w.log, pre |-> Now]
    /\ listing' = NoListing
    /\ UNCHANGED <<qcache, fmt>>

\* Whether the session may hold the instance of row pk already loaded: the
\* rows of its open transaction it holds, a committed row it may or may not.
LoadedChoices(pk) ==
    IF pk \in DOMAIN txn THEN {TRUE}
    ELSE IF pk \in DOMAIN store /\ new # <<>> THEN BOOLEAN
    ELSE {FALSE}

\* The ids the sequence can still hand out bound the instances staged.
CanStage(n) == nextId + Len(new) + n - 1 <= MaxId

\* The item lists of at most n items over a set.
SeqsUpTo(S, n) == UNION {[1..k -> S] : k \in 0..n}

\* The update inputs used in item lists: a rename, a team, a rename with a
\* field the table model does not have.
BulkUpdateInputs ==
    {u \in UpdateInputs : \/ u.fields_set = {"name"} /\ u.name = "Second"
                          \/ u.fields_set = {"team"} /\ u.team = "Red"
                          \/ u.fields_set = {"name", "extra"}}

\* The (instance, changes) item lists: rows the session holds, each at most
\* once and in id order.
BulkUpdates ==
    {items \in SeqsUpTo([pk : DOMAIN View(Now), data : BulkUpdateInputs], MaxItems) :
        \A i \in 1..(Len(items) - 1) : items[i].pk < items[i + 1].pk}

Operations == {"create", "update", "delete"}

\* The where clauses of the tests: a name that may exist, one that does not,
\* a nullable column, the literal True.
Wheres ==
    {Where("name", n) : n \in Names \cup {"Does Not Exist"}} \cup {Where("team", NoneV), WhereTrue}

Create(data, outcome) ==
    /\ CanStage(1)
    /\ Returns("create", Args(0, data, NoData, WhereTrue, "none", TRUE, 0), create(Now, data, outcome))

Update(pk, data, outcome, loaded) ==
    Returns("update", Args(pk, NoCreate, data, WhereTrue, "none", TRUE, 0), update(Now, pk, data, outcome, loaded))

DeleteByPk(pk, outcome, loaded) ==
    Returns("delete_by_pk", Args(pk, NoCreate, NoData, WhereTrue, "none", TRUE, 0),
            delete_by_pk(Now, pk, outcome, loaded))

AddToSession(items, operation, commit, outcome) ==
    /\ operation = "create" => CanStage(Len(items))
    /\ Returns("add_to_session", Args(0, NoCreate, NoData, WhereTrue, operation, commit, Len(items)),
               add_to_session(Now, items, operation, commit, outcome))

GetByPk(pk, loaded) ==
    Returns("get_by_pk", Args(pk, NoCreate, NoData, WhereTrue, "none", FALSE, 0), get_by_pk(Now, pk, loaded))

One(where) ==
    Returns("one", Args(0, NoCreate, NoData, where, "none", FALSE, 0), one(Now, where))

OneOrNone(where) ==
    Returns("one_or_none", Args(0, NoCreate, NoData, where, "none", FALSE, 0), one_or_none(Now, where))

\* What a select of the table through the read-only session returns: the
\* committed rows, those it already holds with the fields it loaded.
QRead(st, cache) ==
    {Item(id, IF id \in DOMAIN cache THEN cache[id] ELSE st[id]) : id \in DOMAIN st}

\* query_service.get_all(): the rows returned are held from then on.
QueryGetAll ==
    /\ qcache' = [id \in DOMAIN qcache \cup DOMAIN store |->
                     IF id \in DOMAIN qcache THEN qcache[id] ELSE store[id]]
    /\ qcache' # qcache
    /\ UNCHANGED <<store, new, txn, nextId, last, fmt, listing>>

\* query_service._session.expire_all()
QueryExpireAll ==
    /\ qcache # Empty
    /\ qcache' = Empty
    /\ UNCHANGED <<store, new, txn, nextId, last, fmt, listing>>

CommitChoices(commit) == IF commit THEN CommitOutcomes ELSE {"ok"}

Next ==
    \/ \E data \in CreateInputs, outcome \in CommitOutcomes : Create(data, outcome)
    \/ \E pk \in Ids, data \in UpdateInputs, outcome \in CommitOutcomes :
           \E loaded \in LoadedChoices(pk) : Update(pk, data, outcome, loaded)
    \/ \E pk \in Ids, outcome \in CommitOutcomes :
           \E loaded \in LoadedChoices(pk) : DeleteByPk(pk, outcome, loaded)
    \/ \E items \in SeqsUpTo(CreateInputs, MaxItems), commit \in BOOLEAN :
           \E outcome \in CommitChoices(commit) : AddToSession(items, "create", commit, outcome)
    \/ \E items \in BulkUpdates, commit \in BOOLEAN :
           \E outcome \in CommitChoices(commit) : AddToSession(items, "update", commit, outcome)
    \/ \E items \in SeqsUpTo(CreateInputs, MaxItems), commit \in BOOLEAN :
           AddToSession(items, "delete", commit, "ok")
    \/ \E pk \in Ids : \E loaded \in LoadedChoices(pk) : GetByPk(pk, loaded)
    \/ \E where \in Wheres : One(where)
    \/ \E where \in Wheres : OneOrNone(where)

Spec == Init /\ [][Next]_vars

(* A writer that stages and commits through add_to_session, and the        *)
(* read-only session beside it (test_create, test_update).                 *)

NextRead ==
    \/ \E items \in SeqsUpTo(CreateInputs, MaxItems), commit \in BOOLEAN :
           \E outcome \in CommitChoices(commit) : AddToSession(items, "create", commit, outcome)
    \/ \E items \in BulkUpdates, commit \in BOOLEAN :
           \E outcome \in CommitChoices(commit) : AddToSession(items, "update", commit, outcome)
    \/ QueryGetAll
    \/ QueryExpireAll

SpecRead == Init /\ [][NextRead]_vars

(* The primary-key formatting helper on its own, over keys of every shape. *)

\* The longest composite key.
MaxKeyLen == 2

KeyAtoms ==
    {PyVal("int", 0), PyVal("int", 12), PyVal("int", 0 - 7),
     PyVal("str", <<"a">>), PyVal("str", <<"x", "|", "y">>)}

KeyNames == {PyVal("str", <<"i", "d">>), PyVal("str", <<"k">>)}

\* The items of a mapping: (key, value) pairs, no key twice.
KeyItems ==
    {m \in SeqsUpTo(KeyNames \X {PyVal("int", 12), PyVal("str", <<"a">>)}, MaxKeyLen) :
        \A i, j \in 1..Len(m) : i # j => m[i][1] # m[j][1]}

KeyInputs ==
    KeyAtoms
    \cup {PyVal(c, t) : c \in {"tuple", "list"}, t \in SeqsUpTo(KeyAtoms, MaxKeyLen)}
    \cup {PyVal(c, m) : c \in {"dict", "OrderedDict", "mappingproxy"}, m \in KeyItems}
    \cup {PyVal("bool", "True"), PyVal("bool", "False")}
    \cup {PyVal("float", <<"1", ".", "5">>), PyVal("NoneType", <<>>),
          PyVal("bytes", <<"a">>), PyVal("set", <<>>)}

FormatKey(pk) ==
    /\ fmt' = [pk |-> pk, out |-> format_primary_key(pk), done |-> TRUE]
    /\ UNCHANGED <<store, new, txn, nextId, qcache, last, listing>>

NextFormat == \E pk \in KeyInputs : FormatKey(pk)

SpecFormat == Init /\ [][NextFormat]_vars

(* The service with every operation that commits, its selects of the table *)
(* and the read-only session beside it.                                    *)

\* The orders in which the database can scan the table the session reads.
Scans(w) ==
    {scan \in [1..Cardinality(DOMAIN View(w)) -> DOMAIN View(w)] :
        \A i, j \in DOMAIN scan : i # j => scan[i] # scan[j]}

\* The where arguments of all(): those of the tests, none, the literal False.
ListWheres == Wheres \cup {NoWhere, WhereFalse}

\* The order_by arguments of all(): none (None or an empty sequence), one
\* column either way, two columns.
OrderBys ==
    {<<>>, <<OrderBy("name", FALSE)>>, <<OrderBy("name", TRUE)>>,
     <<OrderBy("team", FALSE), OrderBy("name", TRUE)>>}

\* A call of all or get_all with outcome o takes effect.
ReturnsRows(op, args, order_by, o) ==
    /\ store' = o.w.store
    /\ new' = o.w.new
    /\ txn' = o.w.txn
    /\ nextId' = o.w.nextId
    /\ last' = [op |-> op, args |-> args, exc |-> NoExc, ret |-> NoItem, log |-> o.w.log, pre |-> Now]
    /\ listing' = [order_by |-> order_by, rows |-> o.rows]
    /\ UNCHANGED <<qcache, fmt>>

All(where, order_by, scan) ==
    ReturnsRows("all", Args(0, NoCreate, NoData, where, "none", FALSE, 0), order_by,
                all(Now, where, order_by, scan))

GetAll(scan) ==
    ReturnsRows("get_all", Args(0, NoCreate, NoData, NoWhere, "none", FALSE, 0), <<>>, get_all(Now, scan))

\* The writes that fill and change the table for the selects: creations,
\* staged or committed, a team set, a row deleted.
NextList ==
    \/ \E items \in SeqsUpTo(CreateInputs, MaxItems), commit \in BOOLEAN :
           AddToSession(items, "create", commit, "ok")
    \/ \E pk \in Ids, data \in {u \in BulkUpdateInputs : u.fields_set = {"team"}} :
           \E loaded \in LoadedChoices(pk) : Update(pk, data, "ok", loaded)
    \/ \E pk \in Ids : \E loaded \in LoadedChoices(pk) : DeleteByPk(pk, "ok", loaded)
    \/ \E where \in ListWheres, order_by \in OrderBys :
           \E scan \in Scans(session_flush(Now)) : All(where, order_by, scan)
    \/ \E scan \in Scans(session_flush(Now)) : GetAll(scan)

SpecList == Init /\ [][NextList]_vars

NextShared ==
    \/ \E items \in SeqsUpTo(CreateInputs, MaxItems), commit \in BOOLEAN :
           \E outcome \in CommitChoices(commit) : AddToSession(items, "create", commit, outcome)
    \/ \E items \in BulkUpdates, commit \in BOOLEAN :
           \E outcome \in CommitChoices(commit) : AddToSession(items, "update", commit, outcome)
    \/ \E data \in CreateInputs, outcome \in CommitOutcomes : Create(data, outcome)
    \/ \E pk \in Ids, data \in BulkUpdateInputs, outcome \in CommitOutcomes :
           \E loaded \in LoadedChoices(pk) : Update(pk, data, outcome, loaded)
    \/ \E pk \in Ids, outcome \in CommitOutcomes :
           \E loaded \in LoadedChoices(pk) : DeleteByPk(pk, outcome, loaded)
    \/ \E pk \in Ids : \E loaded \in LoadedChoices(pk) : GetByPk(pk, loaded)
    \/ \E scan \in Scans(session_flush(Now)) : All(NoWhere, <<>>, scan)
    \/ \E scan \in Scans(session_flush(Now)) : GetAll(scan)
    \/ QueryGetAll
    \/ QueryExpireAll

SpecShared == Init /\ [][NextShared]_vars

(* ------------------------------ the claims ----------------------------- *)

\* How often the operation made a session call.
Count(log, call) == Cardinality({i \in DOMAIN log : log[i] = call})

\* The changes a world's session holds uncommitted, by the id each has or
\* will take when flushed.
Pending(w) == session_flush(w).txn

\* The last call was one of the operations that commit: create, update,
\* delete_by_pk, or add_to_session with commit=true.
CommittingCall ==
    \/ last.op \in {"create", "update", "delete_by_pk"}
    \/ last.op = "add_to_session" /\ last.args.commit

\* C1: after a call of create, update, delete_by_pk or add_to_session with
\* commit=true, however it ended, the session holds no uncommitted change
\* of that call: its pending changes are none at all (committed or rolled
\* back), or exactly those that were pending before the call.
C1_NoChangeLeftPending ==
    CommittingCall => Pending(Now) \in {Empty, Pending(last.pre)}

\* The operation's session calls ended with these.
EndsWith(log, tail) ==
    /\ Len(log) >= Len(tail)
    /\ SubSeq(log, Len(log) - Len(tail) + 1, Len(log)) = tail

\* C2, as claimed: every operation that commits attempts the commit exactly
\* once; a failed commit is followed by exactly one rollback and the
\* operation fails with CommitFailed carrying the failure as its cause; a
\* commit that succeeds is followed by no rollback.
C2_CommitExactlyOnce ==
    CommittingCall =>
        /\ Count(last.log, "commit") = 1
        /\ Count(last.log, "raise") = 1 =>
               /\ Count(last.log, "rollback") = 1
               /\ last.exc.kind = "CommitFailed" /\ last.exc.cause # "none"
        /\ Count(last.log, "raise") = 0 => Count(last.log, "rollback") = 0

\* C2, amended: an operation that commits attempts the commit at most once,
\* and exactly once unless it fails before its commit step (NotFound, an
\* unsupported operation, an error while the changes are applied), in which
\* case it attempts no commit and no rollback.  A failed commit is followed
\* at once by exactly one rollback, after which the operation makes no
\* further session call and fails with CommitFailed carrying the failure as
\* its cause; without a failed commit there is no rollback and no
\* CommitFailed.
C2_CommitAtMostOnce ==
    CommittingCall =>
        /\ Count(last.log, "commit") =
               IF last.exc.kind \in {"NotFound", "ServiceException", "ValueError"} THEN 0 ELSE 1
        /\ last.exc.kind \in {"none", "CommitFailed", "NotFound", "ServiceException", "ValueError"}
        /\ Count(last.log, "raise") <= 1
        /\ Count(last.log, "raise") = 1 =>
               /\ EndsWith(last.log, <<"commit", "raise", "rollback">>)
               /\ Count(last.log, "rollback") = 1
               /\ last.exc.kind = "CommitFailed"
               /\ last.exc.cause \in {"IntegrityError", "OperationalError"}
        /\ Count(last.log, "raise") = 0 =>
               /\ Count(last.log, "rollback") = 0
               /\ last.exc.kind # "CommitFailed"

\* A delete of a committed row whose commit failed and was rolled back.
C2_Witness ==
    /\ last.op = "delete_by_pk"
    /\ last.log = <<"get", "delete", "commit", "raise", "rollback">>
    /\ last.exc.kind = "CommitFailed"
    /\ last.pre.store # Empty

\* C3: when the commit of create, update, delete_by_pk or add_to_session
\* (commit=true) fails, the call fails with CommitFailed, a select through
\* the second session returns the rows it returned before the call, and
\* the session holds nothing of the failed change: it has no uncommitted
\* change left and reads the committed rows.
C3_FailedCommitRolledBack ==
    (CommittingCall /\ Count(last.log, "raise") > 0) =>
        /\ last.exc.kind = "CommitFailed"
        /\ QRead(store, qcache) = QRead(last.pre.store, qcache)
        /\ Pending(Now) = Empty
        /\ View(Now) = store

\* A batch of one creation whose commit failed, on a table that has a row.
C3_Witness ==
    /\ last.op = "add_to_session" /\ last.args.commit /\ last.args.nitems = 1
    /\ last.args.operation = "create"
    /\ Count(last.log, "raise") = 1
    /\ store # Empty

\* The last call was the closing call of a chain of add_to_session calls:
\* commit=true with an empty item list, and it returned.
FinalCall ==
    /\ last.op = "add_to_session" /\ last.args.commit /\ last.args.nitems = 0
    /\ last.args.operation \in {"create", "update"}
    /\ last.exc = NoExc

\* The last call was add_to_session with commit=false.
StagingCall ==
    /\ last.op = "add_to_session" /\ ~last.args.commit
    /\ last.args.operation \in {"create", "update"}

\* C4, as claimed: add_to_session with commit=false changes nothing the
\* read-only session sees and commits nothing; the closing call (commit=true,
\* no items) commits exactly once, and from then on the read-only session
\* sees every change that was staged before it.
C4_ReaderSeesAllStaged ==
    /\ StagingCall =>
           /\ Count(last.log, "commit") = 0
           /\ QRead(store, qcache) = QRead(last.pre.store, qcache)
    /\ FinalCall =>
           /\ Count(last.log, "commit") = 1
           /\ \A id \in DOMAIN Pending(last.pre) :
                  Item(id, Pending(last.pre)[id]) \in QRead(store, qcache)

\* C4, amended: add_to_session with commit=false commits nothing and leaves
\* the committed rows as they were; the closing call commits exactly once
\* and makes every change staged before it a committed row, leaving nothing
\* pending.  A read-only session sees each of these changes unless it holds
\* the changed row already loaded: it sees all of them once its instances
\* are expired (or when it is a fresh session).
C4_StagedCommittedOnce ==
    /\ StagingCall =>
           /\ Count(last.log, "commit") = 0
           /\ store = last.pre.store
           /\ QRead(store, qcache) = QRead(last.pre.store, qcache)
    /\ FinalCall =>
           /\ Count(last.log, "commit") = 1
           /\ Pending(Now) = Empty
           /\ DOMAIN store = DOMAIN last.pre.store \cup DOMAIN Pending(last.pre)
           /\ \A id \in DOMAIN Pending(last.pre) :
                  /\ store[id] = Pending(last.pre)[id]
                  /\ Item(id, Pending(last.pre)[id]) \in QRead(store, Empty)
                  /\ id \notin DOMAIN qcache =>
                         Item(id, Pending(last.pre)[id]) \in QRead(store, qcache)
           /\ \A id \in DOMAIN last.pre.store \ DOMAIN Pending(last.pre) :
                  store[id] = last.pre.store[id]

\* The closing call committed a staged creation and a staged change of a
\* row the read-only session had loaded before the change.
C4_Witness ==
    /\ FinalCall
    /\ \E id \in DOMAIN Pending(last.pre) : id \notin DOMAIN last.pre.store
    /\ \E id \in DOMAIN Pending(last.pre) \cap DOMAIN qcache : qcache[id] # store[id]

\* The table as the operation called last found it: the committed rows and
\* everything its session had staged.
TableBefore == View(session_flush(last.pre))

\* C5: when no row has the primary key, update and delete_by_pk fail with
\* NotFound (the message is the formatted key) and commit nothing, and
\* get_by_pk returns None without raising.
C5_MissingKey ==
    last.args.pk \notin DOMAIN TableBefore =>
        /\ last.op \in {"update", "delete_by_pk"} =>
               /\ last.exc = Raised("NotFound", IntStr(last.args.pk), "none")
               /\ store = last.pre.store
               /\ Count(last.log, "commit") = 0
        /\ last.op = "get_by_pk" => last.exc = NoExc /\ last.ret = NoItem

\* A delete of a key no row has, on a table that has rows.
C5_Witness ==
    /\ last.op = "delete_by_pk"
    /\ last.args.pk \notin DOMAIN TableBefore
    /\ TableBefore # Empty
    /\ last.exc.kind = "NotFound"

\* The rows of the table the where clause of the last call selects.
Matching ==
    {id \in DOMAIN TableBefore :
        \/ last.args.where = WhereTrue
        \/ TableBefore[id][last.args.where.field] = last.args.where.value}

\* C6: with no matching row one fails with NotFound and one_or_none returns
\* None; with two or more matching rows both fail with MultipleResultsFound;
\* with exactly one matching row both return that row.
C6_OneAndOneOrNone ==
    last.op \in {"one", "one_or_none"} =>
        /\ Cardinality(Matching) = 0 =>
               IF last.op = "one" THEN last.exc.kind = "NotFound"
               ELSE last.exc = NoExc /\ last.ret = NoItem
        /\ Cardinality(Matching) >= 2 => last.exc.kind = "MultipleResultsFound"
        /\ Cardinality(Matching) = 1 =>
               /\ last.exc = NoExc
               /\ \E id \in Matching : last.ret = Item(id, TableBefore[id])

\* one_or_none with a where clause on a column that two rows match.
C6_Witness ==
    /\ last.op = "one_or_none"
    /\ last.args.where = Where("name", "First")
    /\ Cardinality(Matching) = 2
    /\ last.exc.kind = "MultipleResultsFound"

\* The last call was an update that returned.
UpdateReturned == last.op = "update" /\ last.exc = NoExc

\* C7: an update that returns has changed exactly the fields its input set
\* explicitly, each to the input's value (None included), and has left every
\* other field of the row, and every other row, as it was; the returned
\* instance and the committed row both show it.
C7_ExactlyTheSetFields ==
    UpdateReturned =>
        /\ last.ret.id = last.args.pk
        /\ \A f \in ModelFields :
               /\ last.ret[f] = IF f \in last.args.data.fields_set THEN last.args.data[f]
                                ELSE TableBefore[last.args.pk][f]
               /\ store[last.args.pk][f] = last.ret[f]
        /\ \A id \in DOMAIN TableBefore \ {last.args.pk} : store[id] = TableBefore[id]

\* An update that explicitly set the team to None on a row that had a team,
\* with the name left unset.
C7_Witness ==
    /\ UpdateReturned
    /\ last.args.data.fields_set = {"team"} /\ last.args.data.team = NoneV
    /\ TableBefore[last.args.pk].team = "Red"
    /\ store[last.args.pk].name # NoneV

\* The last call was a create that returned.
CreateReturned == last.op = "create" /\ last.exc = NoExc

\* C8: a create that returns gives the new row with the identity the
\* database assigned to it (the next value of the sequence after the
\* instances staged before it) and the fields of its input, and get_by_pk of
\* that identity, called next, returns a value equal to it.
C8_CreateThenGet ==
    CreateReturned =>
        /\ last.ret.id = last.pre.nextId + Len(last.pre.new)
        /\ last.ret.id \notin DOMAIN TableBefore
        /\ last.ret.name = last.args.cdata.name
        /\ \A loaded \in BOOLEAN : get_by_pk(Now, last.ret.id, loaded).ret = last.ret

\* A create that returned, made while the session held a staged instance.
C8_Witness ==
    /\ CreateReturned
    /\ last.pre.new # <<>>
    /\ last.ret.id = MaxId

\* C9: add_to_session with a selector other than "create" and "update" fails
\* with ServiceException before it makes any session call: the committed
\* rows, the staged instances and the open transaction are as before,
\* whatever the items and the commit flag.
C9_UnsupportedOperation ==
    (last.op = "add_to_session" /\ last.args.operation \notin {"create", "update"}) =>
        /\ last.exc.kind = "ServiceException"
        /\ last.log = <<>>
        /\ store = last.pre.store /\ new = last.pre.new /\ txn = last.pre.txn
        /\ nextId = last.pre.nextId

\* An unsupported selector with two items and commit=true, on a session that
\* holds a staged instance.
C9_Witness ==
    /\ last.op = "add_to_session" /\ last.args.operation = "delete"
    /\ last.args.commit /\ last.args.nitems = 2
    /\ last.pre.new # <<>>
    /\ last.exc.kind = "ServiceException"

\* The classes of the four primary-key shapes: atomic (a bool is an int),
\* tuple and list, mapping.
AtomicClasses == {"int", "str", "bool"}
SequenceClasses == {"tuple", "list"}
MappingClasses == {"dict", "OrderedDict", "mappingproxy"}

\* C10, as claimed: an atomic key formats to its string, a tuple or a list to
\* the strings of its elements joined with "|", a mapping to its "key:value"
\* pairs joined with "|", and any other value raises.
C10_FourShapes ==
    fmt.done =>
        IF fmt.pk.cls \in AtomicClasses THEN fmt.out = Formatted(PyStr(fmt.pk))
        ELSE IF fmt.pk.cls \in SequenceClasses
            THEN fmt.out = Formatted(Join(<<"|">>, [i \in 1..Len(fmt.pk.val) |-> PyStr(fmt.pk.val[i])]))
        ELSE IF fmt.pk.cls \in MappingClasses
            THEN fmt.out = Formatted(Join(<<"|">>, [i \in 1..Len(fmt.pk.val) |->
                               PyStr(fmt.pk.val[i][1]) \o <<":">> \o PyStr(fmt.pk.val[i][2])]))
        ELSE fmt.out.error # "none"

\* The rows of the table the where argument of the last all() selects: every
\* row when it is omitted or the literal True, none when it is the literal
\* False, else those whose column holds the value.
Selected ==
    {id \in DOMAIN TableBefore :
        \/ last.args.where \in {NoWhere, WhereTrue}
        \/ /\ last.args.where \notin {NoWhere, WhereTrue, WhereFalse}
           /\ TableBefore[id][last.args.where.field] = last.args.where.value}

\* C11: all returns without failing; the rows it returns are exactly the
\* rows of the table that satisfy where (every row when where is omitted),
\* each once, an empty sequence when there is none; when order_by holds a
\* clause no row comes after a row that sorts after it.
C11_AllRowsInOrder ==
    last.op = "all" =>
        /\ last.exc = NoExc
        /\ Len(listing.rows) = Cardinality(Selected)
        /\ {listing.rows[i] : i \in DOMAIN listing.rows} = {Item(id, TableBefore[id]) : id \in Selected}
        /\ listing.order_by # <<>> =>
               \A i, j \in DOMAIN listing.rows :
                   i < j => ~SortsBefore(listing.rows[j], listing.rows[i], listing.order_by)

\* all with a where clause two rows satisfy and a descending order that puts
\* the row created later first.
C11_Witness ==
    /\ last.op = "all"
    /\ last.args.where = Where("team", NoneV)
    /\ listing.order_by = <<OrderBy("name", TRUE)>>
    /\ Len(listing.rows) = 2
    /\ listing.rows[1].name = "Second" /\ listing.rows[2].name = "First"
    /\ listing.rows[1].id > listing.rows[2].id

\* The last call was a delete_by_pk that returned.
DeleteReturned == last.op = "delete_by_pk" /\ last.exc = NoExc

\* The ids of the rows a sequence of instances holds.
IdsOf(rows) == {rows[i].id : i \in DOMAIN rows}

\* C12: a delete_by_pk that returns was given the key of an existing row and
\* has committed the deletion: the row is no committed row and nothing is
\* left pending; get_by_pk of the key, called next, returns None; the row is
\* in no result of all() and get_all() of the same session and in no result
\* of get_all() of the read-only session, whether or not that session had
\* the row loaded; every other row is still there; when the row was the
\* last one, get_all() is empty in both sessions.
C12_DeletedRowIsGone ==
    DeleteReturned =>
        /\ last.args.pk \in DOMAIN TableBefore
        /\ last.args.pk \notin DOMAIN store
        /\ Pending(Now) = Empty
        /\ DOMAIN store = DOMAIN TableBefore \ {last.args.pk}
        /\ \A loaded \in LoadedChoices(last.args.pk) : get_by_pk(Now, last.args.pk, loaded).ret = NoItem
        /\ \A scan \in Scans(session_flush(Now)) :
               /\ last.args.pk \notin IdsOf(all(Now, NoWhere, <<>>, scan).rows)
               /\ last.args.pk \notin IdsOf(get_all(Now, scan).rows)
               /\ IdsOf(get_all(Now, scan).rows) = DOMAIN TableBefore \ {last.args.pk}
               /\ DOMAIN TableBefore = {last.args.pk} => get_all(Now, scan).rows = <<>>
        /\ \A item \in QRead(store, qcache) : item.id # last.args.pk
        /\ DOMAIN TableBefore = {last.args.pk} => QRead(store, qcache) = {}

\* A delete that returned, of a row the read-only session had loaded, with
\* another row left in the table.
C12_Witness ==
    /\ DeleteReturned
    /\ last.args.pk \in DOMAIN qcache
    /\ last.args.pk \in DOMAIN last.pre.store
    /\ store # Empty

\* What the session held staged when the last call was made: the rows it
\* had added or changed and not committed, by id.
StagedBefore == Pending(last.pre)

\* The last call attempted a commit, which succeeded / which failed.
CommitSucceeded == CommittingCall /\ Count(last.log, "commit") = 1 /\ Count(last.log, "raise") = 0
CommitRaised == CommittingCall /\ Count(last.log, "commit") = 1 /\ Count(last.log, "raise") = 1

\* The last call's own change is (or may be) a change of the row id.
OwnChangeOf(id) ==
    \/ last.op \in {"update", "delete_by_pk"} /\ last.args.pk = id
    \/ last.op = "add_to_session" /\ last.args.operation = "update" /\ last.args.nitems > 0

====
